---- MODULE Spec2Model ----
(***************************************************************************)
(* A model of SHELVIS: the named seed container and its snapshot diff      *)
(* (shelvis/core/containers.py), the streamline plot that reconciles the   *)
(* figure with the seeds (shelvis/plot/streamline.py), the dataset's       *)
(* field ingestion (shelvis/io/dataset.py) and the streamline tracer       *)
(* (shelvis/vtk/tracer.py).                                                *)
(***************************************************************************)
EXTENDS Integers, Sequences, FiniteSets, TLC

(***************************************************************************)
(* Bounds of the model.                                                    *)
(***************************************************************************)
\* largest angular position of a coordinate, in model units
MaxCoord == 2
\* longest array-valued coordinate
MaxLen == 2
\* most snapshots the container publishes in one run
MaxSnap == 4
\* longest raw polyline of the integrator
MaxRaw == 4
\* largest component of a field vector
MaxVec == 2
\* decimal places kept of a slider's numbers
MaxDecimals == 1

\* The default tolerance_arcsec of changes_to_points (1e-6 arcsec) in model
\* units: one model unit of angle is half the default tolerance, so that a
\* move by one unit stays below it and a move by two units reaches it.
TolDefault == 2

\* The name of the placeholder trace of a plot widget.
DummyName == "__dummy__"

VARIABLES
    \* one call of changes_to_points
    dOld,      \* the diff's argument old
    dNew,      \* the diff's argument new
    dTol,      \* the diff's argument tolerance_arcsec
    dOut,      \* what changes_to_points returned
    dPc,       \* "call" before the call, "done" after it
    \* the container's dict objects
    heap,      \* the dict objects allocated so far, by identity
    cur,       \* the identity of the dict the points trait refers to
    hist,      \* each published snapshot: its identity and its contents then
    cowOp,     \* how the last container operation ended
    \* a StreamlinePlot and its figure
    points,    \* seeds.points, the current snapshot
    attached,  \* the widget was added to a Visualization (observer linked)
    fig,       \* the figure's data: its traces, in order
    pc,        \* "idle", or where _on_seeds_change stands
    todoUpd,   \* updated keys _on_seeds_change has still to redraw
    todoAdd,   \* added keys _on_seeds_change has still to add
    chg,       \* the key sets of the change being reconciled
    figBefore, \* the figure's data as the change being reconciled found it
    calls,     \* StreamTracer.trace calls per label, in this reconciliation
    \* a Dataset
    gridInit,  \* from_field has set the grid's dimensions and points
    cell_data, \* the grid's cell arrays, by name
    point_data,\* the grid's point arrays, by name
    unit_of,   \* _unit_of: the unit registered for each variable
    dsErr,     \* how the last add_scalar or add_vector ended
    dsCall,    \* the arguments of the last add_scalar or add_vector
    \* StreamTracers and contour views on one Dataset
    activeVectors, \* the Dataset's point data: the name of its active vectors
    activeScalars, \* the Dataset's point data: the name of its active scalars
    tracers,   \* the StreamTracers constructed: variable, direction, start
    tRes,      \* the last operation on a tracer or view and how it ended
    \* one call of lines 142-145 of trace_from_point
    sDir,      \* integration_direction
    sRaw,      \* the integrator's raw polyline
    sOut,      \* what is returned, or the error raised
    sPc,       \* "call" before the call, "done" after it
    \* one call of Dataset.get_transformed_vector, at one grid point
    vIn,       \* the vector (vx, vy, vz) in the field's frame
    vFrame,    \* how the field's frame maps to the Dataset's frame
    vOut,      \* the vector (wx, wy, wz) returned
    vPc,       \* "call" before the call, "done" after it
    \* a UnitConfig
    config,    \* the value of each declared parameter
    cfgRes,    \* the last set() or assignment and how it ended
    \* a Sphere widget (a FloatSliderWithUnit)
    sphere,    \* _unit, the slider's value, min, max, step, the value trait
               \* and the radius of the surface
    uRes       \* the last operation on it, how it ended and what the
               \* observers of the value trait were told

diffVars == <<dOld, dNew, dTol, dOut, dPc>>

cowVars == <<heap, cur, hist, cowOp>>

plotVars == <<points, attached, fig, pc, todoUpd, todoAdd, chg, figBefore, calls>>

dataVars == <<gridInit, cell_data, point_data, unit_of, dsErr, dsCall>>

tracerVars == <<activeVectors, activeScalars, tracers, tRes>>

splitVars == <<sDir, sRaw, sOut, sPc>>

vecVars == <<vIn, vFrame, vOut, vPc>>

configVars == <<config, cfgRes>>

sliderVars == <<sphere, uRes>>

vars == <<diffVars, cowVars, plotVars, dataVars, tracerVars, splitVars, vecVars,
          configVars, sliderVars>>

(***************************************************************************)
(* Coordinates (astropy SkyCoord).  A coordinate is scalar (shape ()) or   *)
(* an array of positions (shape (n,)); a position is an angle in model     *)
(* units, or NaN.                                                          *)
(***************************************************************************)
NaN == 0 - 1

Positions == 0..MaxCoord

Scalar(p) == [isscalar |-> TRUE, v |-> <<p>>]

Array(s) == [isscalar |-> FALSE, v |-> s]

shape(c) == IF c.isscalar THEN <<>> ELSE <<Len(c.v)>>

SeqsUpTo(S, n) == UNION {[1..m -> S] : m \in 0..n}

\* the great-circle separation of two positions; NaN propagates
AngSep(a, b) ==
    IF a = NaN \/ b = NaN THEN NaN
    ELSE IF a >= b THEN a - b ELSE b - a

\* new_coord.separation(old_coord).arcsecond, elementwise over one shape
separation(new_coord, old_coord) ==
    [i \in 1..Len(new_coord.v) |-> AngSep(new_coord.v[i], old_coord.v[i])]

\* the floating-point comparison sep < tol: false when sep is NaN
FloatLess(s, tol) == s # NaN /\ s < tol

\* (sep < tolerance_arcsec).all()
AllBelow(sep, tol) == \A i \in DOMAIN sep : FloatLess(sep[i], tol)

(***************************************************************************)
(* SkyCoordContainer.changes_to_points: a dict is a function from the      *)
(* labels it holds.                                                        *)
(***************************************************************************)
EmptyDict == [k \in {} |-> 0]

AddedKeysSwapped(old, new) == DOMAIN old \ DOMAIN new

AddedKeysAll(old, new) == DOMAIN new

AddedKeys(old, new) == DOMAIN new \ DOMAIN old

RemovedKeys(old, new) == DOMAIN old \ DOMAIN new

IsUpdatedNoTol(old_coord, new_coord, tol) ==
    shape(old_coord) # shape(new_coord) \/ old_coord # new_coord

IsUpdatedInverted(old_coord, new_coord, tol) ==
    IF shape(old_coord) # shape(new_coord) THEN TRUE
    ELSE \E i \in 1..Len(new_coord.v) :
            FloatLess(separation(new_coord, old_coord)[i], tol)

IsUpdated(old_coord, new_coord, tol) ==
    IF shape(old_coord) # shape(new_coord) THEN TRUE
    ELSE ~AllBelow(separation(new_coord, old_coord), tol)

UpdatedKeys(old, new, tol) ==
    {k \in DOMAIN old \cap DOMAIN new : IsUpdated(old[k], new[k], tol)}

changes_to_points(old, new, tol) ==
    [added   |-> [k \in AddedKeys(old, new) |-> new[k]],
     removed |-> [k \in RemovedKeys(old, new) |-> old[k]],
     updated |-> [k \in UpdatedKeys(old, new, tol) |-> <<old[k], new[k]>>]]

NoChanges == [added |-> EmptyDict, removed |-> EmptyDict, updated |-> EmptyDict]

(***************************************************************************)
(* The inputs of the diff: snapshots over two labels.                      *)
(***************************************************************************)
DiffLabels == {"A", "B"}

DiffCoords ==
    {Scalar(p) : p \in Positions \cup {NaN}}
        \cup {Array(s) : s \in SeqsUpTo({0, MaxCoord}, MaxLen)}
        \cup {Array(<<NaN>>)}

DiffSnapshots == UNION {[D -> DiffCoords] : D \in SUBSET DiffLabels}

Tolerances == {0, 1, TolDefault}

InitDiff ==
    /\ dOld \in DiffSnapshots
    /\ dNew \in DiffSnapshots
    /\ dTol \in Tolerances
    /\ dOut = NoChanges
    /\ dPc = "call"

CallDiff ==
    /\ dPc = "call"
    /\ dOut' = changes_to_points(dOld, dNew, dTol)
    /\ dPc' = "done"
    /\ UNCHANGED <<dOld, dNew, dTol>>
    /\ UNCHANGED <<cowVars, plotVars, dataVars, tracerVars, splitVars, vecVars, configVars, sliderVars>>

\* no call of changes_to_points on its own: the default arguments, never run
InitDiffIdle ==
    /\ dOld = EmptyDict
    /\ dNew = EmptyDict
    /\ dTol = TolDefault
    /\ dOut = NoChanges
    /\ dPc = "call"

(***************************************************************************)
(* SkyCoordContainer: the points trait refers to one dict object at a      *)
(* time.  heap holds every dict object allocated so far, cur is the one    *)
(* the points trait refers to.                                             *)
(***************************************************************************)
\* new_points = dict(points); new_points[key] = value
DictSet(d, key, value) ==
    [k \in DOMAIN d \cup {key} |-> IF k = key THEN value ELSE d[k]]

\* new_points = dict(points); del new_points[key]
DictDel(d, key) == [k \in DOMAIN d \ {key} |-> d[k]]

SetItemInPlace(h, c, key, value) ==
    [heap |-> [h EXCEPT ![c] = DictSet(h[c], key, value)], cur |-> c]

\* __setitem__ with a SkyCoord: copy, set, reassign the trait
SetItemObjects(h, c, key, value) ==
    [heap |-> Append(h, DictSet(h[c], key, value)), cur |-> Len(h) + 1]

\* remove of a present key: copy, delete, reassign the trait
RemoveObjects(h, c, key) ==
    [heap |-> Append(h, DictDel(h[c], key)), cur |-> Len(h) + 1]

CowLabels == {"A", "B"}

CowCoords == {Scalar(0), Scalar(MaxCoord), Array(<<0, MaxCoord>>)}

InitCow ==
    /\ heap = <<EmptyDict>>
    /\ cur = 1
    /\ hist = <<[id |-> 1, val |-> EmptyDict]>>
    /\ cowOp = "init"

Publish(r) ==
    /\ heap' = r.heap
    /\ cur' = r.cur
    /\ hist' = Append(hist, [id |-> r.cur, val |-> r.heap[r.cur]])

\* container[key] = value
CowSetItem(key, isSkyCoord, value) ==
    /\ Len(heap) < MaxSnap
    /\ IF ~isSkyCoord
       THEN /\ cowOp' = "TypeError"
            /\ UNCHANGED <<heap, cur, hist>>
       ELSE /\ Publish(SetItemObjects(heap, cur, key, value))
            /\ cowOp' = "set"
    /\ UNCHANGED <<diffVars, plotVars, dataVars, tracerVars, splitVars, vecVars, configVars, sliderVars>>

\* container.remove(key)
CowRemove(key) ==
    /\ Len(heap) < MaxSnap
    /\ IF key \in DOMAIN heap[cur]
       THEN /\ Publish(RemoveObjects(heap, cur, key))
            /\ cowOp' = "removed"
       ELSE /\ cowOp' = "absent"
            /\ UNCHANGED <<heap, cur, hist>>
    /\ UNCHANGED <<diffVars, plotVars, dataVars, tracerVars, splitVars, vecVars, configVars, sliderVars>>

\* del container[key]: calls remove(key)
CowDelItem(key) == CowRemove(key)

(***************************************************************************)
(* StreamlinePlot in a Visualization's figure.  A trace of the figure has  *)
(* a name and a showlegend flag; kind tells the widget's placeholder from  *)
(* a streamline, and fresh marks the traces the reconciliation under way   *)
(* has added.                                                              *)
(***************************************************************************)
PlotLabels == {"A", "B", DummyName}

\* the seeds a caller gives: a scalar at any position, or an array of up to
\* MaxLen seeds; under the placeholder's name, a scalar at either end
ZeroArrays == {[i \in 1..n |-> 0] : n \in 0..MaxLen}

PlotCoords(key) ==
    IF key = DummyName THEN {Scalar(0), Scalar(MaxCoord)}
    ELSE {Scalar(p) : p \in Positions} \cup {Array(s) : s \in ZeroArrays}

\* the dicts a caller assigns to seeds.points directly
AssignChoices ==
    UNION {[D -> {Scalar(0), Array(<<>>)}] : D \in SUBSET {"A", "B"}}

\* whether the new value may be another object than an equal old one
ObjectChoices(old, new) == IF old = new THEN BOOLEAN ELSE {FALSE}

\* create_plot: the widget's placeholder trace
DummyTrace ==
    [name |-> DummyName, showlegend |-> FALSE, kind |-> "placeholder", fresh |-> FALSE]

NoKeys == [added |-> {}, removed |-> {}, updated |-> {}]

NoCalls == [k \in PlotLabels |-> 0]

InitPlot ==
    /\ points = EmptyDict
    /\ attached = FALSE
    /\ fig = <<>>
    /\ pc = "idle"
    /\ todoUpd = {}
    /\ todoAdd = {}
    /\ chg = NoKeys
    /\ figBefore = <<>>
    /\ calls = NoCalls

\* Visualization.add_widget: the placeholder joins the figure, the plot
\* setter links the observer of seeds.points
AddWidget ==
    /\ pc = "idle"
    /\ ~attached
    /\ attached' = TRUE
    /\ fig' = Append(fig, DummyTrace)
    /\ UNCHANGED <<points, pc, todoUpd, todoAdd, chg, figBefore, calls>>
    /\ UNCHANGED <<diffVars, cowVars, dataVars, tracerVars, splitVars, vecVars, configVars, sliderVars>>

\* a trace of another widget of the same figure, such as the first
\* streamline of a second StreamlinePlot's seed A
OtherTrace ==
    [name |-> "A", showlegend |-> TRUE, kind |-> "other", fresh |-> FALSE]

HasOther(data) == \E i \in 1..Len(data) : data[i].kind = "other"

\* the figure gets a trace that is not this StreamlinePlot's: add_widget of
\* another widget, or a seed added to another StreamlinePlot
AddOtherTrace ==
    /\ pc = "idle"
    /\ ~HasOther(fig)
    /\ fig' = Append(fig, OtherTrace)
    /\ UNCHANGED <<points, attached, pc, todoUpd, todoAdd, chg, figBefore, calls>>
    /\ UNCHANGED <<diffVars, cowVars, dataVars, tracerVars, splitVars, vecVars, configVars, sliderVars>>

\* self.plot.parent: the figure while the placeholder is among its data; a
\* trace taken out of a figure's data has no parent
PlotHasParent(data) == \E i \in 1..Len(data) : data[i].kind = "placeholder"

to_be_removed_OnlyRemoved(d) == DOMAIN d.removed

\* set(list(removed) + list(updated))
to_be_removed(d) == DOMAIN d.removed \cup DOMAIN d.updated

\* [d for d in _fig.data if d.name not in to_be_removed]
new_fig_data(data, names) == SelectSeq(data, LAMBDA t : t.name \notin names)

\* traitlets notifies the observers of points unless old == new: equal dicts
\* are silent, except that an equal array of other than one element which is
\* another object compares as not equal
Notifies(old, new, loudKeys, distinctObject) ==
    \/ new # old
    \/ /\ distinctObject
       /\ \E k \in loudKeys \cap DOMAIN new :
             ~new[k].isscalar /\ Len(new[k].v) # 1

\* _on_seeds_change up to the assignment of _fig.data (lines 48 to 66)
OnSeedsChange(old, new) ==
    LET d == changes_to_points(old, new, TolDefault)
    IN  /\ chg' = [added |-> DOMAIN d.added, removed |-> DOMAIN d.removed,
                   updated |-> DOMAIN d.updated]
        /\ figBefore' = fig
        /\ calls' = NoCalls
        /\ IF ~PlotHasParent(fig)
           THEN \* _fig is None: _fig.data raises AttributeError
                /\ pc' = "raised"
                /\ UNCHANGED <<fig, todoUpd, todoAdd>>
           ELSE /\ fig' = new_fig_data(fig, to_be_removed(d))
                /\ todoUpd' = DOMAIN d.updated
                /\ todoAdd' = DOMAIN d.added
                /\ pc' = IF DOMAIN d.updated \cup DOMAIN d.added = {}
                         THEN "done" ELSE "redraw"

\* self.points = new: the trait is set, then the observers run
SetPoints(new, loudKeys, distinctObject) ==
    /\ points' = new
    /\ UNCHANGED attached
    /\ IF attached /\ Notifies(points, new, loudKeys, distinctObject)
       THEN OnSeedsChange(points, new)
       ELSE UNCHANGED <<fig, pc, todoUpd, todoAdd, chg, figBefore, calls>>

\* seeds[key] = value
SetItem(key, value, distinctObject) ==
    /\ pc = "idle"
    /\ SetPoints(DictSet(points, key, value), {key}, distinctObject)
    /\ UNCHANGED <<diffVars, cowVars, dataVars, tracerVars, splitVars, vecVars, configVars, sliderVars>>

\* seeds.remove(key), del seeds[key]
Remove(key) ==
    /\ pc = "idle"
    /\ IF key \in DOMAIN points
       THEN SetPoints(DictDel(points, key), {}, FALSE)
       ELSE UNCHANGED plotVars
    /\ UNCHANGED <<diffVars, cowVars, dataVars, tracerVars, splitVars, vecVars, configVars, sliderVars>>

\* seeds.points = new
AssignPoints(new, distinctObject) ==
    /\ pc = "idle"
    /\ SetPoints(new, DOMAIN new, distinctObject)
    /\ UNCHANGED <<diffVars, cowVars, dataVars, tracerVars, splitVars, vecVars, configVars, sliderVars>>

NumSeeds(seed) == IF seed.isscalar THEN 1 ELSE Len(seed.v)

\* the traces trace_sources returns for n seeds: the first one in the legend
NewTraces(label, n) ==
    [i \in 1..n |->
        [name |-> label, showlegend |-> (i = 1), kind |-> "line", fresh |-> TRUE]]

\* One pass of a loop of lines 69 to 74, _fig.add_traces(self.trace_sources(key)):
\* the updated keys first, then the added ones, each group in the order of a
\* set of strings.  nOk calls of StreamTracer.trace return before one raises
\* (nOk = the number of seeds: none raises); no seed at all makes traces[0]
\* raise IndexError.
Redraw(key, nOk) ==
    /\ pc = "redraw"
    /\ key \in (IF todoUpd # {} THEN todoUpd ELSE todoAdd)
    /\ nOk <= NumSeeds(points[key])
    /\ IF nOk < NumSeeds(points[key]) \/ NumSeeds(points[key]) = 0
       THEN /\ calls' = [calls EXCEPT
                           ![key] = IF nOk < NumSeeds(points[key]) THEN nOk + 1 ELSE 0]
            /\ pc' = "raised"
            /\ todoUpd' = {}
            /\ todoAdd' = {}
            /\ UNCHANGED fig
       ELSE /\ calls' = [calls EXCEPT ![key] = nOk]
            /\ fig' = fig \o NewTraces(key, nOk)
            /\ todoUpd' = todoUpd \ {key}
            /\ todoAdd' = IF todoUpd # {} THEN todoAdd ELSE todoAdd \ {key}
            /\ pc' = IF (todoUpd \cup todoAdd) \ {key} = {} THEN "done" ELSE "redraw"
    /\ UNCHANGED <<points, attached, chg, figBefore>>
    /\ UNCHANGED <<diffVars, cowVars, dataVars, tracerVars, splitVars, vecVars, configVars, sliderVars>>

\* _on_seeds_change returns, or its exception leaves the assignment
Return ==
    /\ pc \in {"done", "raised"}
    /\ pc' = "idle"
    /\ fig' = [i \in 1..Len(fig) |-> [fig[i] EXCEPT !.fresh = FALSE]]
    /\ chg' = NoKeys
    /\ figBefore' = <<>>
    /\ calls' = NoCalls
    /\ UNCHANGED <<points, attached, todoUpd, todoAdd>>
    /\ UNCHANGED <<diffVars, cowVars, dataVars, tracerVars, splitVars, vecVars, configVars, sliderVars>>

(***************************************************************************)
(* DatasetBase: a structured grid with its cell and point arrays and the   *)
(* unit of each variable.  An array is n equal values; a unit resolves to  *)
(* its SI scale and the bases of its SI form, or does not resolve.         *)
(***************************************************************************)
\* the grid's number of points (bound); a line of points has one cell less
GridPoints == 3

GridCells == GridPoints - 1

ArraySizes == 1..(GridPoints + 1)

ArrayValues == {1}

UnitStrings == {"m", "km", "km/s", "", "furlongs?"}

\* astropy.units.Unit(unit) parses
Resolves(unit) == unit # "furlongs?"

\* _unit.si.scale
SiScale(unit) == IF unit \in {"km", "km/s"} THEN 1000 ELSE 1

\* _unit.si.bases: no base for a dimensionless unit
SiBases(unit) ==
    CASE unit \in {"m", "km"} -> <<"m">>
      [] unit = "km/s" -> <<"m", "s">>
      [] OTHER -> <<>>

\* the three components' sizes: equal, or one of them differs
ComponentSizes(nx) == {nx, GridCells}

\* the caller passes three arrays, or one array three times
AliasChoices(nx, ny, nz) == IF nx = ny /\ ny = nz THEN BOOLEAN ELSE {FALSE}

NoCall == [op |-> "none", n |-> 0, val |-> 0, name |-> "", unit |-> "",
           aliased |-> FALSE, bufAfter |-> 0]

InitData ==
    /\ gridInit = FALSE
    /\ cell_data = EmptyDict
    /\ point_data = EmptyDict
    /\ unit_of = EmptyDict
    /\ dsErr = "none"
    /\ dsCall = NoCall

\* Dataset.from_field: sets the grid's dimensions and points
FromField ==
    /\ ~gridInit
    /\ gridInit' = TRUE
    /\ UNCHANGED <<cell_data, point_data, unit_of, dsErr, dsCall>>
    /\ UNCHANGED <<diffVars, cowVars, plotVars, tracerVars, splitVars, vecVars, configVars, sliderVars>>

StoreAndRegisterSwapped(arr, name, unit) ==
    /\ IF arr.n = GridCells
       THEN point_data' = DictSet(point_data, name, arr) /\ UNCHANGED cell_data
       ELSE cell_data' = DictSet(cell_data, name, arr) /\ UNCHANGED point_data
    /\ IF SiBases(unit) = <<>>
       THEN dsErr' = "IndexError" /\ UNCHANGED unit_of
       ELSE dsErr' = "none" /\ unit_of' = DictSet(unit_of, name, SiBases(unit)[1])

\* _vtkdata.AddArray(...) where the size tells cell data from point data,
\* then self._unit_of[name] = _unit.si.bases[0], which raises IndexError when
\* the unit has no base
StoreAndRegister(arr, name, unit) ==
    /\ IF arr.n = GridCells
       THEN cell_data' = DictSet(cell_data, name, arr) /\ UNCHANGED point_data
       ELSE point_data' = DictSet(point_data, name, arr) /\ UNCHANGED cell_data
    /\ IF SiBases(unit) = <<>>
       THEN dsErr' = "IndexError" /\ UNCHANGED unit_of
       ELSE dsErr' = "none" /\ unit_of' = DictSet(unit_of, name, SiBases(unit)[1])

Fails(err) ==
    /\ dsErr' = err
    /\ UNCHANGED <<cell_data, point_data, unit_of>>

\* add_scalar(data, name, unit), data an array of n values val
add_scalar(n, val, name, unit) ==
    /\ UNCHANGED gridInit
    \* _array = data*_unit.si.scale is a new array: data keeps its values
    /\ dsCall' = [op |-> "add_scalar", n |-> n, val |-> val, name |-> name,
                  unit |-> unit, aliased |-> FALSE, bufAfter |-> val]
    /\ IF ~gridInit THEN Fails("ValueError: uninitialized")
       ELSE IF ~Resolves(unit) THEN Fails("ValueError: unit")
       ELSE IF n # GridCells /\ n # GridPoints THEN Fails("ValueError: size")
       ELSE StoreAndRegister([kind |-> "scalar", n |-> n, val |-> val * SiScale(unit)],
                             name, unit)
    /\ UNCHANGED <<diffVars, cowVars, plotVars, tracerVars, splitVars, vecVars, configVars, sliderVars>>

\* vx *= scale; vy *= scale; vz *= scale, in place: a value of a buffer the
\* three components share is multiplied three times
ScaledInPlace(val, unit, aliased) ==
    IF aliased THEN val * SiScale(unit) * SiScale(unit) * SiScale(unit)
    ELSE val * SiScale(unit)

\* add_vector((vx, vy, vz), name, unit), the components arrays of nx, ny, nz
\* values val; bufAfter is what the caller's arrays hold when the call is
\* over: they are scaled once the sizes are compared and the unit is resolved
add_vector(nx, ny, nz, val, name, unit, aliased) ==
    /\ UNCHANGED gridInit
    /\ dsCall' = [op |-> "add_vector", n |-> nx, val |-> val, name |-> name,
                  unit |-> unit, aliased |-> aliased,
                  bufAfter |-> IF nx = ny /\ ny = nz /\ Resolves(unit)
                               THEN ScaledInPlace(val, unit, aliased) ELSE val]
    /\ IF ~(nx = ny /\ ny = nz) THEN Fails("ValueError: components")
       ELSE IF ~Resolves(unit) THEN Fails("ValueError: unit")
       ELSE IF ~gridInit THEN Fails("AttributeError")
       ELSE IF nx # GridCells /\ nx # GridPoints THEN Fails("ValueError: size")
       ELSE StoreAndRegister([kind |-> "vector", n |-> nx,
                              val |-> ScaledInPlace(val, unit, aliased)],
                             name, unit)
    /\ UNCHANGED <<diffVars, cowVars, plotVars, tracerVars, splitVars, vecVars, configVars, sliderVars>>

(***************************************************************************)
(* StreamTracer._split_curve and the end of trace_from_point.  A polyline   *)
(* is a sequence of points on the z axis: (0, 0, z), or (0, 0, z - 1e-6)   *)
(* when below is set.                                                      *)
(***************************************************************************)
P(z) == [z |-> z, below |-> FALSE]

\* the point (0, 0, 0.999999)
NearOne == [z |-> 1, below |-> TRUE]

\* x*x + y*y + z*z
dsqr(p) == [sq |-> p.z * p.z, below |-> p.below]

\* np.isclose(a, b), rtol = 1e-5 and atol = 1e-8: squares of integers are
\* close when equal, and the square of z - 1e-6 is within 1e-5 * z * z + 1e-8
\* of the square of z for the integers z used here
isclose(a, b) == a.sq = b.sq

\* np.where(np.isclose(dsqr, dsqr[0]))[0], as positions from 1
isect(curve) == {i \in 1..Len(curve) : isclose(dsqr(curve[i]), dsqr(curve[1]))}

\* np.delete(isect, 0): without its first entry, which is the first position
split_indices(curve) == isect(curve) \ {1}

\* curve1[::-1]
reversed_all(curve1) == [i \in 1..Len(curve1) |-> curve1[Len(curve1) + 1 - i]]

\* curve1[:0:-1]: from the last point down to the second
reversed_to_second(curve1) ==
    [i \in 1..(Len(curve1) - 1) |-> curve1[Len(curve1) + 1 - i]]

Returned(line) == [err |-> "none", line |-> line]

Raised(err) == [err |-> err, line |-> <<>>]

split_curve_KeepSeed(curve) ==
    IF curve = <<>> THEN Raised("IndexError")
    ELSE IF Cardinality(split_indices(curve)) # 1 THEN Raised("ValueError: unpack")
    ELSE LET k == CHOOSE i \in split_indices(curve) : TRUE
             curve1 == SubSeq(curve, 1, k - 1)
             curve2 == SubSeq(curve, k, Len(curve))
         IN  Returned(reversed_all(curve1) \o curve2)

\* _split_curve(curve): dsqr[0] raises IndexError on an empty curve;
\* curve1, curve2 = np.array_split(curve, indices) raises ValueError unless
\* there is exactly one index, hence exactly two pieces
split_curve(curve) ==
    IF curve = <<>> THEN Raised("IndexError")
    ELSE IF Cardinality(split_indices(curve)) # 1 THEN Raised("ValueError: unpack")
    ELSE LET k == CHOOSE i \in split_indices(curve) : TRUE
             curve1 == SubSeq(curve, 1, k - 1)
             curve2 == SubSeq(curve, k, Len(curve))
         IN  Returned(reversed_to_second(curve1) \o curve2)

\* trace_from_point, from the raw polyline on
reassembled(direction, curve) ==
    IF direction = "both" THEN split_curve(curve) ELSE Returned(curve)

Directions == {"both", "forward", "backward"}

\* the polyline of the origin-split scenario
ScenarioCurve == <<P(5), P(3), P(1), P(0 - 1), P(0 - 3), NearOne>>

SplitPoints == {P(z) : z \in (0 - 1)..1}

RawCurves == SeqsUpTo(SplitPoints, MaxRaw) \cup {ScenarioCurve}

InitSplit ==
    /\ sDir \in Directions
    /\ sRaw \in RawCurves
    /\ sOut = Raised("not called")
    /\ sPc = "call"

CallSplit ==
    /\ sPc = "call"
    /\ sOut' = reassembled(sDir, sRaw)
    /\ sPc' = "done"
    /\ UNCHANGED <<sDir, sRaw>>
    /\ UNCHANGED <<diffVars, cowVars, plotVars, dataVars, tracerVars, vecVars, configVars, sliderVars>>

\* no call of its own: never run
InitSplitIdle ==
    /\ sDir = "both"
    /\ sRaw = <<>>
    /\ sOut = Raised("not called")
    /\ sPc = "idle"

(***************************************************************************)
(* StreamTracers and isocontour views on one Dataset whose ingestion is    *)
(* over: its point data holds the vectors VectorNames and the scalars      *)
(* ScalarNames.  A seed is given in the tracer's frame.                    *)
(***************************************************************************)
TracerIds == {"t1", "t2"}

VectorNames == {"B", "V"}

ScalarNames == {"rho", "T"}

DirectionInputs == {"both", "forward", "backward", " Both ", "FORWARD", "sideways"}

\* value.strip().lower()
strip_lower(value) ==
    CASE value = " Both " -> "both"
      [] value = "FORWARD" -> "forward"
      [] OTHER -> value

\* self._integration_dir[direction]: vtkStreamTracer's FORWARD, BACKWARD, BOTH
integration_dir(direction) ==
    CASE direction = "forward" -> 0
      [] direction = "backward" -> 1
      [] direction = "both" -> 2

\* self._integration_dir[value]: the same dict read from the integer
integration_dir_name(value) == CHOOSE d \in Directions : integration_dir(d) = value

\* the getter
integration_direction(tracer) == integration_dir_name(tracer.integration_direction)

set_integration_direction_Unvalidated(current, value) ==
    IF strip_lower(value) \notin Directions
    THEN [err |-> "none", dir |-> integration_dir("both")]
    ELSE [err |-> "none", dir |-> integration_dir(strip_lower(value))]

\* the setter: the error it raises and the vtk direction afterwards
set_integration_direction(current, value) ==
    LET direction_str == strip_lower(value)
    IN  IF direction_str \notin Directions
        THEN [err |-> "ValueError", dir |-> current]
        ELSE [err |-> "none", dir |-> integration_dir(direction_str)]

isscalar_OrLengthOne(seed) == seed.isscalar \/ Len(seed.v) = 1

\* seed.isscalar
isscalar(seed) == seed.isscalar

TraceSeeds == {Scalar(0), Scalar(MaxCoord), Array(<<>>), Array(<<MaxCoord>>),
               Array(<<0, MaxCoord>>)}

\* what the integrator may return: nothing, the seed alone, a line that
\* leaves the seed, and lines traced both ways from the seed (the seed
\* comes first and again where the second half starts)
IntegratorOutputs ==
    {<<>>, <<P(1)>>, <<P(1), P(2)>>, <<P(1), P(2), P(1), P(0)>>,
     <<P(1), P(0), P(1), P(0 - 1)>>}

NoTracer == [variable |-> "none", integration_direction |-> 0, start_position |-> 0]

NoRes == [op |-> "none", tracer |-> "none", value |-> "", seed |-> Scalar(0),
          raw |-> <<>>, err |-> "none", line |-> <<>>, invoked |-> FALSE,
          integrated |-> "none", before |-> NoTracer]

InitTracer ==
    /\ activeVectors = "none"
    /\ activeScalars = "none"
    /\ tracers = EmptyDict
    /\ tRes = NoRes

\* StreamTracer(data, variable, integration_direction): the direction is
\* set first, vtkStreamTracer's own default being FORWARD; then the
\* Dataset's active vectors are set to the tracer's variable
NewTracer(t, variable, value) ==
    /\ t \notin DOMAIN tracers
    /\ LET r == set_integration_direction(integration_dir("forward"), value)
       IN  /\ tRes' = [NoRes EXCEPT !.op = "init", !.tracer = t, !.value = value,
                                    !.err = r.err]
           /\ IF r.err # "none"
              THEN UNCHANGED <<tracers, activeVectors>>
              ELSE /\ tracers' = DictSet(tracers, t,
                                    [variable |-> variable,
                                     integration_direction |-> r.dir,
                                     start_position |-> 0])
                   /\ activeVectors' = variable
    /\ UNCHANGED activeScalars
    /\ UNCHANGED <<diffVars, cowVars, plotVars, dataVars, splitVars, vecVars, configVars, sliderVars>>

\* tracer.integration_direction = value
SetDirection(t, value) ==
    /\ t \in DOMAIN tracers
    /\ LET r == set_integration_direction(tracers[t].integration_direction, value)
       IN  /\ tRes' = [NoRes EXCEPT !.op = "set", !.tracer = t, !.value = value,
                                    !.err = r.err, !.before = tracers[t]]
           /\ tracers' = [tracers EXCEPT ![t].integration_direction = r.dir]
    /\ UNCHANGED <<activeVectors, activeScalars>>
    /\ UNCHANGED <<diffVars, cowVars, plotVars, dataVars, splitVars, vecVars, configVars, sliderVars>>

\* tracer.trace(seed), the integrator returning raw: trace_from_point sets
\* the start position, updates the vtk tracer, which integrates the active
\* vectors of its input, and reassembles the line
Trace(t, seed, raw) ==
    /\ t \in DOMAIN tracers
    /\ IF isscalar(seed)
       THEN LET out == reassembled(integration_direction(tracers[t]), raw)
            IN  /\ tracers' = [tracers EXCEPT ![t].start_position = seed.v[1]]
                /\ tRes' = [NoRes EXCEPT !.op = "trace", !.tracer = t, !.seed = seed,
                                         !.raw = raw, !.err = out.err,
                                         !.line = out.line, !.invoked = TRUE,
                                         !.integrated = activeVectors,
                                         !.before = tracers[t]]
       ELSE /\ UNCHANGED tracers
            /\ tRes' = [NoRes EXCEPT !.op = "trace", !.tracer = t, !.seed = seed,
                                     !.err = "ValueError: single point",
                                     !.before = tracers[t]]
    /\ UNCHANGED <<activeVectors, activeScalars>>
    /\ UNCHANGED <<diffVars, cowVars, plotVars, dataVars, splitVars, vecVars, configVars, sliderVars>>

\* "None" for no colouring variable
PaintNames == ScalarNames \cup {"None"}

\* IsocontourPlot.update and create_plot of a view of variable, coloured by
\* color: the contouring variable is made the Dataset's active scalars,
\* then the colouring variable if there is one
IsocontourUpdate(variable, color) ==
    /\ activeScalars' = IF color = "None" THEN variable ELSE color
    /\ tRes' = [NoRes EXCEPT !.op = "contour", !.value = variable]
    /\ UNCHANGED <<activeVectors, tracers>>
    /\ UNCHANGED <<diffVars, cowVars, plotVars, dataVars, splitVars, vecVars, configVars, sliderVars>>

(***************************************************************************)
(* Dataset.get_transformed_vector at one grid point.  A vector has integer *)
(* components and an integer magnitude; a frame change is what             *)
(* transform_to does to a position: a rotation about the z axis by quarter *)
(* turns, and a shift along x where the two frames differ in their origin. *)
(* A quotient is kept as numerator and denominator.                        *)
(***************************************************************************)
Vec(x, y, z) == [nan |-> FALSE, x |-> x, y |-> y, z |-> z]

\* what 0/0 gives in every component
NaNVec == [nan |-> TRUE, x |-> 0, y |-> 0, z |-> 0]

MagSq(v) == v.x * v.x + v.y * v.y + v.z * v.z

IsSquare(n) == \E r \in 0..n : r * r = n

\* np.sqrt(vx*vx + vy*vy + vz*vz)
vabs_of(v) == CHOOSE r \in 0..MagSq(v) : r * r = MagSq(v)

\* vx/vabs, vy/vabs, vz/vabs: 0/0 is nan
unit_vector(v) ==
    IF vabs_of(v) = 0 THEN [nan |-> TRUE, num |-> NaNVec, den |-> 1]
    ELSE [nan |-> FALSE, num |-> v, den |-> vabs_of(v)]

\* a quarter turn about z, n times
Rotated(v, n) ==
    CASE n = 0 -> v
      [] n = 1 -> Vec(0 - v.y, v.x, v.z)
      [] n = 2 -> Vec(0 - v.x, 0 - v.y, v.z)
      [] n = 3 -> Vec(v.y, 0 - v.x, v.z)

\* _v.transform_to(self.coordinate_frame) of the position num/den metres
transform_to(u, frame) ==
    IF u.nan THEN u
    ELSE LET r == Rotated(u.num, frame.turns)
         IN  [nan |-> FALSE, num |-> Vec(r.x + frame.shift * u.den, r.y, r.z),
              den |-> u.den]

\* vabs*_w.cartesian.get_xyz()
scaled_back(vabs, w) ==
    IF w.nan THEN NaNVec
    ELSE Vec((vabs * w.num.x) \div w.den, (vabs * w.num.y) \div w.den,
             (vabs * w.num.z) \div w.den)

get_transformed_vector(v, frame) ==
    scaled_back(vabs_of(v), transform_to(unit_vector(v), frame))

VecComponents == (0 - MaxVec)..MaxVec

FieldVectors ==
    {Vec(x, y, z) : x \in VecComponents, y \in VecComponents, z \in {0, MaxVec}}

VecInputs == {v \in FieldVectors : IsSquare(MagSq(v))}

FrameChanges == [turns : 0..3, shift : {0, 1}]

NoVec == Vec(0, 0, 0)

InitVec ==
    /\ vIn \in VecInputs
    /\ vFrame \in FrameChanges
    /\ vOut = NoVec
    /\ vPc = "call"

CallVec ==
    /\ vPc = "call"
    /\ vOut' = get_transformed_vector(vIn, vFrame)
    /\ vPc' = "done"
    /\ UNCHANGED <<vIn, vFrame>>
    /\ UNCHANGED <<diffVars, cowVars, plotVars, dataVars, tracerVars, splitVars, configVars, sliderVars>>

\* no call of its own: never run
InitVecIdle ==
    /\ vIn = NoVec
    /\ vFrame = [turns |-> 0, shift |-> 0]
    /\ vOut = NoVec
    /\ vPc = "idle"

(***************************************************************************)
(* ConfigParams and UnitConfig.  A value has a Python type and, when it is *)
(* a Quantity, a unit.                                                     *)
(***************************************************************************)
Quantity(val, unit) == [type |-> "Quantity", val |-> val, unit |-> unit]

Plain(type) == [type |-> type, val |-> 1, unit |-> ""]

\* the physical type of a unit
Dimension(unit) ==
    CASE unit \in {"m", "km", "AU"} -> "length"
      [] unit = "s" -> "time"
      [] OTHER -> "dimensionless"

is_equivalent_Always(unit, other) == TRUE

\* value.unit.is_equivalent(original_value.unit)
is_equivalent(unit, other) == Dimension(unit) = Dimension(other)

\* self.__class__.__annotations__ of UnitConfig: the declared type by key
annotations == [length |-> "Quantity"]

ConfigKeys == {"length", "time"}

ConfigValues ==
    {Quantity(val, unit) : val \in {1, 2}, unit \in {"m", "km", "AU", "s", ""}}
        \cup {Plain("float"), Plain("str")}

NoConfigOp == [op |-> "none", key |-> "", value |-> Plain("str"), err |-> "none",
               before |-> [length |-> Quantity(1, "m")]]

\* length: astropy.units.Quantity = 1*astropy.units.m
InitConfig ==
    /\ config = [length |-> Quantity(1, "m")]
    /\ cfgRes = NoConfigOp

\* config.key = value: __setattr__ raises
ConfigAssign(key, value) ==
    /\ cfgRes' = [op |-> "assign", key |-> key, value |-> value,
                  err |-> "AttributeError", before |-> config]
    /\ UNCHANGED config
    /\ UNCHANGED <<diffVars, cowVars, plotVars, dataVars, tracerVars, splitVars, vecVars, sliderVars>>

\* config.set(key, value): the error raised, "none" when the value is stored
set_error(cfg, key, value) ==
    IF key \notin DOMAIN annotations THEN "AttributeError"
    ELSE IF value.type # annotations[key] THEN "TypeError: type"
    ELSE IF value.type = "Quantity" /\ ~is_equivalent(value.unit, cfg[key].unit)
         THEN "TypeError: unit"
    ELSE "none"

ConfigSet(key, value) ==
    /\ cfgRes' = [op |-> "set", key |-> key, value |-> value,
                  err |-> set_error(config, key, value), before |-> config]
    /\ IF set_error(config, key, value) = "none"
       THEN config' = [config EXCEPT ![key] = value]
       ELSE UNCHANGED config
    /\ UNCHANGED <<diffVars, cowVars, plotVars, dataVars, tracerVars, splitVars, vecVars, sliderVars>>

(***************************************************************************)
(* FloatSliderWithUnit and Sphere.  The numbers of the slider are floats;  *)
(* they are kept here with MaxDecimals decimal places, as the integer      *)
(* number of Fix-ths.  The ipywidgets FloatSlider caps and floors an       *)
(* assigned value to [min, max], refuses a min above max and a max below   *)
(* min with a TraitError, and moves the value to a min or max that passes  *)
(* it; a traitlets trait stores the assigned value and notifies its        *)
(* observers unless the old value == the new, which for Quantities is      *)
(* equality of the physical quantity.                                      *)
(***************************************************************************)
Fix == 10 ^ MaxDecimals

SliderUnits == {"mm", "cm"}

\* the length of a unit in mm
LengthScale(unit) == IF unit = "cm" THEN 10 ELSE 1

\* number * unit
Q(num, unit) == [num |-> num, unit |-> unit]

\* the physical quantity of q, in Fix-ths of a mm
Phys(q) == q.num * LengthScale(q.unit)

\* q.to(unit).value
to_float(q, unit) == Phys(q) \div LengthScale(unit)

\* whether q.to(unit).value has no more than MaxDecimals decimal places
Exact(q, unit) == Phys(q) % LengthScale(unit) = 0

\* min(max(value, self.min), self.max) of the FloatSlider
Clamp(x, lo, hi) ==
    LET floored == IF x > lo THEN x ELSE lo
    IN  IF floored < hi THEN floored ELSE hi

\* A handler at work on the widget w: the error raised so far and the
\* values told to the observers of the value trait, in order.
Running(w) == [w |-> w, err |-> "none", notes |-> <<>>]

RECURSIVE slider_set_value(_, _), set_value_trait(_, _)

\* self.slider.value = x: the value is capped and floored; when it changes,
\* _on_slider_value_change assigns change['new'] * self.unit to the trait
slider_set_value(r, x) ==
    LET c == Clamp(x, r.w.min, r.w.max)
    IN  IF c = r.w.value THEN r
        ELSE set_value_trait([r EXCEPT !.w.value = c], Q(c, r.w.unit))

\* self.value = q, or self.set_trait('value', q): the trait is stored; when
\* it differs from the old one the observers are called: _on_radius_change
\* sets the radius of the surface and _on_value_trait_change assigns
\* _to_float(q) to the slider
set_value_trait(r, q) ==
    IF Phys(q) = Phys(r.w.trait) THEN [r EXCEPT !.w.trait = q]
    ELSE slider_set_value([r EXCEPT !.w.trait = q, !.w.radius = Phys(q),
                                    !.notes = Append(@, q)],
                          to_float(q, r.w.unit))

\* self.slider.min = x
slider_set_min(r, x) ==
    IF x > r.w.max THEN [r EXCEPT !.err = "TraitError: min > max"]
    ELSE LET moved == IF x > r.w.value THEN slider_set_value(r, x) ELSE r
         IN  [moved EXCEPT !.w.min = x]

\* self.slider.max = x
slider_set_max(r, x) ==
    IF x < r.w.min THEN [r EXCEPT !.err = "TraitError: max < min"]
    ELSE LET moved == IF x < r.w.value THEN slider_set_value(r, x) ELSE r
         IN  [moved EXCEPT !.w.max = x]

\* the setter of FloatSliderWithUnit.unit, statement by statement; a
\* statement is not reached once one has raised
unit_setter(r, new_unit) ==
    LET old_unit == r.w.unit
        old_value == Q(r.w.value, old_unit)
        r1 == slider_set_value([r EXCEPT !.w.unit = new_unit],
                               to_float(old_value, new_unit))
        r2 == slider_set_min(r1, to_float(Q(r1.w.min, old_unit), new_unit))
        r3 == IF r2.err # "none" THEN r2
              ELSE slider_set_max(r2, to_float(Q(r2.w.max, old_unit), new_unit))
        r4 == IF r3.err # "none" THEN r3
              ELSE [r3 EXCEPT !.w.step = to_float(Q(r3.w.step, old_unit), new_unit)]
    IN  IF r4.err # "none" THEN r4
        ELSE set_value_trait(r4, Q(to_float(old_value, new_unit), new_unit))

\* Sphere(radius, unit=unit, min=lo, max=hi, step=1), lo <= radius <= hi
NewSphere(unit, radius, lo, hi) ==
    [unit |-> unit, value |-> radius * Fix, min |-> lo * Fix, max |-> hi * Fix,
     step |-> Fix, trait |-> Q(radius * Fix, unit),
     radius |-> Phys(Q(radius * Fix, unit))]

SliderValues == {2, 5}

NoSliderOp == [op |-> "none", before |-> NewSphere("cm", 2, 0, 5), err |-> "none",
               notes |-> <<>>]

InitSlider ==
    /\ sphere \in {NewSphere(unit, radius, lo, hi) :
                      unit \in SliderUnits, radius \in SliderValues,
                      lo \in {0, 2}, hi \in {5, 20}}
    /\ uRes = NoSliderOp

InitSliderIdle ==
    /\ sphere = NewSphere("cm", 2, 0, 5)
    /\ uRes = NoSliderOp

\* what a handler leaves behind
Ended(op, r) ==
    /\ sphere' = r.w
    /\ uRes' = [op |-> op, before |-> sphere, err |-> r.err, notes |-> r.notes]
    /\ UNCHANGED <<diffVars, cowVars, plotVars, dataVars, tracerVars, splitVars, vecVars, configVars>>

\* sphere.unit = new_unit
SetUnit(new_unit) ==
    /\ \A f \in {"value", "min", "max", "step"} :
          Exact(Q(sphere[f], sphere.unit), new_unit)
    /\ Ended("unit", unit_setter(Running(sphere), new_unit))

\* the slider is dragged to the position x
SlideTo(x) ==
    /\ sphere.min <= x * Fix
    /\ x * Fix <= sphere.max
    /\ Ended("slide", slider_set_value(Running(sphere), x * Fix))

\* sphere.value = q
SetValue(q) ==
    /\ Exact(q, sphere.unit)
    /\ Ended("value", set_value_trait(Running(sphere), q))

(***************************************************************************)
(* Specifications.                                                         *)
(***************************************************************************)
InitOfDiff == InitDiff /\ InitCow /\ InitPlot /\ InitData /\ InitTracer /\ InitSplitIdle /\ InitVecIdle /\ InitConfig /\ InitSliderIdle

NextDiff == CallDiff

\* changes_to_points applied to every pair of snapshots and every tolerance
SpecDiff == InitOfDiff /\ [][NextDiff]_vars

InitOfCow == InitDiffIdle /\ InitCow /\ InitPlot /\ InitData /\ InitTracer /\ InitSplitIdle /\ InitVecIdle /\ InitConfig /\ InitSliderIdle

NextCow ==
    \/ \E key \in CowLabels, value \in CowCoords, isSkyCoord \in BOOLEAN :
          CowSetItem(key, isSkyCoord, value)
    \/ \E key \in CowLabels : CowRemove(key)
    \/ \E key \in CowLabels : CowDelItem(key)

\* a container under any sequence of mutations
SpecCow == InitOfCow /\ [][NextCow]_vars

Init == InitDiffIdle /\ InitCow /\ InitPlot /\ InitData /\ InitTracer /\ InitSplitIdle /\ InitVecIdle /\ InitConfig /\ InitSliderIdle

Next ==
    \/ AddWidget
    \/ AddOtherTrace
    \/ \E key \in PlotLabels : \E value \in PlotCoords(key) :
          \E distinctObject \in ObjectChoices(points, DictSet(points, key, value)) :
             SetItem(key, value, distinctObject)
    \/ \E key \in PlotLabels : Remove(key)
    \/ \E new \in AssignChoices : \E distinctObject \in ObjectChoices(points, new) :
          AssignPoints(new, distinctObject)
    \/ \E key \in PlotLabels, nOk \in 0..MaxLen : Redraw(key, nOk)
    \/ Return

\* a StreamlinePlot whose seeds are edited, before and after it joins a figure
Spec == Init /\ [][Next]_vars

InitOfData == InitDiffIdle /\ InitCow /\ InitPlot /\ InitData /\ InitTracer /\ InitSplitIdle /\ InitVecIdle /\ InitConfig /\ InitSliderIdle

NextData ==
    \/ FromField
    \/ \E n \in ArraySizes, val \in ArrayValues, unit \in UnitStrings :
          add_scalar(n, val, "rho", unit)
    \/ \E nx \in ArraySizes, val \in ArrayValues, unit \in UnitStrings :
          \E ny, nz \in ComponentSizes(nx) : \E aliased \in AliasChoices(nx, ny, nz) :
             add_vector(nx, ny, nz, val, "B", unit, aliased)

\* a Dataset under any sequence of ingestions
SpecData == InitOfData /\ [][NextData]_vars

InitOfSplit ==
    InitDiffIdle /\ InitCow /\ InitPlot /\ InitData /\ InitTracer /\ InitSplit /\ InitVecIdle /\ InitConfig /\ InitSliderIdle

NextSplit == CallSplit

\* the end of trace_from_point applied to every direction and raw polyline
SpecSplit == InitOfSplit /\ [][NextSplit]_vars

InitOfTracer ==
    InitDiffIdle /\ InitCow /\ InitPlot /\ InitData /\ InitTracer /\ InitSplitIdle /\ InitVecIdle /\ InitConfig /\ InitSliderIdle

NextTracer ==
    \/ \E t \in TracerIds, variable \in VectorNames, value \in DirectionInputs :
          NewTracer(t, variable, value)
    \/ \E t \in TracerIds, value \in DirectionInputs : SetDirection(t, value)
    \/ \E t \in TracerIds, seed \in TraceSeeds, raw \in IntegratorOutputs :
          Trace(t, seed, raw)
    \/ \E variable \in ScalarNames, color \in PaintNames :
          IsocontourUpdate(variable, color)

InitOfVec ==
    InitDiffIdle /\ InitCow /\ InitPlot /\ InitData /\ InitTracer /\ InitSplitIdle /\ InitVec
    /\ InitConfig /\ InitSliderIdle

NextVec == CallVec

\* get_transformed_vector applied to every vector and frame change
SpecVec == InitOfVec /\ [][NextVec]_vars

InitOfConfig ==
    InitDiffIdle /\ InitCow /\ InitPlot /\ InitData /\ InitTracer /\ InitSplitIdle
    /\ InitVecIdle /\ InitConfig /\ InitSliderIdle

NextConfig ==
    \/ \E key \in ConfigKeys, value \in ConfigValues : ConfigAssign(key, value)
    \/ \E key \in ConfigKeys, value \in ConfigValues : ConfigSet(key, value)

\* a UnitConfig under any sequence of assignments and set() calls
SpecConfig == InitOfConfig /\ [][NextConfig]_vars

\* tracers and views constructed and used on one Dataset, in any order
SpecTracer == InitOfTracer /\ [][NextTracer]_vars

InitOfSlider ==
    InitDiffIdle /\ InitCow /\ InitPlot /\ InitData /\ InitTracer /\ InitSplitIdle
    /\ InitVecIdle /\ InitConfig /\ InitSlider

NextSlider ==
    \/ \E new_unit \in SliderUnits : SetUnit(new_unit)
    \/ \E x \in SliderValues : SlideTo(x)
    \/ \E unit \in SliderUnits, x \in SliderValues : SetValue(Q(x * Fix, unit))

\* a Sphere whose unit and value are changed, in any order
SpecSlider == InitOfSlider /\ [][NextSlider]_vars

(***************************************************************************)
(* Claims about changes_to_points, under SpecDiff.                         *)
(***************************************************************************)
InBoth == DOMAIN dOld \cap DOMAIN dNew

\* C1: added is exactly the entries whose label is in new and not in old,
\* with new's coordinate; removed is exactly the entries whose label is in
\* old and not in new, with old's coordinate.
C1_AddedRemoved ==
    dPc = "done" =>
        /\ \A k \in DiffLabels :
              /\ k \in DOMAIN dOut.added <=> (k \in DOMAIN dNew /\ k \notin DOMAIN dOld)
              /\ k \in DOMAIN dOut.removed <=> (k \in DOMAIN dOld /\ k \notin DOMAIN dNew)
        /\ \A k \in DOMAIN dOut.added : dOut.added[k] = dNew[k]
        /\ \A k \in DOMAIN dOut.removed : dOut.removed[k] = dOld[k]

C1_Witness ==
    /\ dPc = "done"
    /\ DOMAIN dOut.added # {}
    /\ DOMAIN dOut.removed # {}

\* the separations the claim speaks of: one per component old and new both have
CommonSeps(o, n) ==
    LET m == IF Len(o.v) <= Len(n.v) THEN Len(o.v) ELSE Len(n.v)
    IN  [i \in 1..m |-> AngSep(n.v[i], o.v[i])]

\* C2 as stated: a label in both is updated if old and new differ in being
\* scalar or array, and otherwise exactly when some component's separation
\* is >= tolerance.
C2_AsStated ==
    dPc = "done" =>
        \A k \in InBoth :
            k \in DOMAIN dOut.updated <=>
                \/ dOld[k].isscalar # dNew[k].isscalar
                \/ /\ dOld[k].isscalar = dNew[k].isscalar
                   /\ \E i \in DOMAIN CommonSeps(dOld[k], dNew[k]) :
                         /\ CommonSeps(dOld[k], dNew[k])[i] # NaN
                         /\ CommonSeps(dOld[k], dNew[k])[i] >= dTol

\* C2, amended: a label in both is updated if old and new differ in shape
\* (scalar against array, or arrays of different lengths), and otherwise
\* exactly when not every component's separation is < tolerance (some
\* separation is >= tolerance, or is NaN); an updated label is mapped to the
\* pair (old, new) and an unchanged one is in none of the three results.
C2_ShapeOrSeparation ==
    dPc = "done" =>
        \A k \in InBoth :
            LET differ == \/ dOld[k].isscalar # dNew[k].isscalar
                          \/ Len(dOld[k].v) # Len(dNew[k].v)
                far == \E i \in 1..Len(dNew[k].v) :
                          LET s == AngSep(dNew[k].v[i], dOld[k].v[i])
                          IN  s = NaN \/ s >= dTol
            IN  /\ k \in DOMAIN dOut.updated <=> (differ \/ (~differ /\ far))
                /\ k \in DOMAIN dOut.updated => dOut.updated[k] = <<dOld[k], dNew[k]>>
                /\ k \notin DOMAIN dOut.added \cup DOMAIN dOut.removed

C2_Witness ==
    /\ dPc = "done"
    /\ \E k \in InBoth :
          /\ ~dOld[k].isscalar /\ ~dNew[k].isscalar
          /\ Len(dOld[k].v) # Len(dNew[k].v)
          /\ k \in DOMAIN dOut.updated
    /\ \E k \in InBoth :
          /\ shape(dOld[k]) = shape(dNew[k])
          /\ dOld[k] # dNew[k]
          /\ k \notin DOMAIN dOut.updated

HasNaN(S) == \E k \in DOMAIN S : \E i \in 1..Len(S[k].v) : S[k].v[i] = NaN

\* C3 as stated: for any snapshot S and any tolerance, diff(S, S, tol) is
\* three empty results.
C3_AsStated ==
    (dPc = "done" /\ dOld = dNew) => dOut = NoChanges

\* C3, amended: for any snapshot S without a NaN position and any tolerance
\* greater than zero, diff(S, S, tol) is three empty results.
C3_Idempotent ==
    (dPc = "done" /\ dOld = dNew /\ dTol > 0 /\ ~HasNaN(dOld)) => dOut = NoChanges

C3_Witness ==
    /\ dPc = "done"
    /\ dOld = dNew
    /\ dTol > 0
    /\ ~HasNaN(dOld)
    /\ DOMAIN dOld = DiffLabels
    /\ \E k \in DOMAIN dOld : ~dOld[k].isscalar /\ Len(dOld[k].v) = MaxLen

\* the results a label falls in; "unchanged" is in both and in none of the three
Categories(k) ==
    {c \in {"added", "removed", "updated", "unchanged"} :
        \/ c = "added" /\ k \in DOMAIN dOut.added
        \/ c = "removed" /\ k \in DOMAIN dOut.removed
        \/ c = "updated" /\ k \in DOMAIN dOut.updated
        \/ /\ c = "unchanged"
           /\ k \in InBoth
           /\ k \notin DOMAIN dOut.added \cup DOMAIN dOut.removed \cup DOMAIN dOut.updated}

\* C4: every label of old or new falls in exactly one of added, removed,
\* updated, unchanged; the three results' key sets are pairwise disjoint and
\* hold no label outside old and new.
C4_Totality ==
    dPc = "done" =>
        /\ \A k \in DOMAIN dOld \cup DOMAIN dNew : Cardinality(Categories(k)) = 1
        /\ DOMAIN dOut.added \cap DOMAIN dOut.removed = {}
        /\ DOMAIN dOut.added \cap DOMAIN dOut.updated = {}
        /\ DOMAIN dOut.removed \cap DOMAIN dOut.updated = {}
        /\ (DOMAIN dOut.added \cup DOMAIN dOut.removed \cup DOMAIN dOut.updated)
              \subseteq (DOMAIN dOld \cup DOMAIN dNew)

C4_Witness ==
    /\ dPc = "done"
    /\ DOMAIN dOut.updated # {}
    /\ \E k \in InBoth : Categories(k) = {"unchanged"}

(***************************************************************************)
(* Claims about the container's snapshots, under SpecCow.                  *)
(***************************************************************************)
\* C5: every successful mutation installs a new dict as the current snapshot
\* and no mutation modifies a snapshot published earlier: every published
\* snapshot still holds the mapping it held when it was current, no two
\* publications share a dict, and a failed or void operation publishes none.
C5_CopyOnWrite ==
    /\ \A i \in 1..Len(hist) : heap[hist[i].id] = hist[i].val
    /\ \A i, j \in 1..Len(hist) : i # j => hist[i].id # hist[j].id
    /\ hist[Len(hist)].id = cur
    /\ cowOp \in {"set", "removed"} => cur = Len(heap)

C5_Witness ==
    /\ Len(hist) >= 4
    /\ cowOp = "removed"
    /\ \E i, j \in 1..Len(hist) :
          /\ i < j
          /\ "A" \in DOMAIN hist[i].val /\ "A" \in DOMAIN hist[j].val
          /\ hist[i].val["A"] # hist[j].val["A"]

(***************************************************************************)
(* Claims about StreamlinePlot's reconciliation, under Spec.               *)
(***************************************************************************)
Reconciling == pc \in {"redraw", "done", "raised"}

Finished == pc \in {"done", "raised"}

TracesOf(data, label) == SelectSeq(data, LAMBDA t : t.name = label)

StaleOf(data, label) == SelectSeq(data, LAMBDA t : t.name = label /\ ~t.fresh)

FreshOf(data, label) == SelectSeq(data, LAMBDA t : t.name = label /\ t.fresh)

\* this StreamlinePlot's streamlines of a label that show in the legend
VisibleOf(data, label) ==
    SelectSeq(data, LAMBDA t : t.name = label /\ t.kind = "line" /\ t.showlegend)

\* C6: once a seed change is being reconciled, no trace that existed before
\* the change and is tagged with a removed or updated label is left in the
\* figure.
C6_AsStated ==
    Reconciling =>
        \A label \in chg.removed \cup chg.updated : StaleOf(fig, label) = <<>>

\* C7: when the reconciliation of a seed change ends, every updated or added
\* label has had one StreamTracer.trace call per scalar seed under it and as
\* many traces added under its name, the first of them in the legend and no
\* other.
C7_AsStated ==
    Finished =>
        \A label \in chg.updated \cup chg.added :
            /\ calls[label] = NumSeeds(points[label])
            /\ Len(FreshOf(fig, label)) = NumSeeds(points[label])
            /\ \A i \in 1..Len(FreshOf(fig, label)) :
                  FreshOf(fig, label)[i].showlegend <=> (i = 1)

\* C8: for an updated label the old traces are out of the figure before any
\* new one is in: while and after its change is reconciled the figure never
\* holds an old and a new trace of the label together, nor two traces of the
\* label that show in the legend.
C8_RemoveBeforeAdd ==
    \A label \in chg.updated :
        /\ FreshOf(fig, label) # <<>> => StaleOf(fig, label) = <<>>
        /\ Len(VisibleOf(fig, label)) <= 1

C8_Witness ==
    /\ pc = "done"
    /\ \E label \in chg.updated :
          /\ TracesOf(figBefore, label) # <<>>
          /\ Len(FreshOf(fig, label)) = MaxLen
          /\ Len(VisibleOf(fig, label)) = 1

\* C9: when the reconciliation of a seed change ends, what it did to the
\* figure is exactly the removals for the removed and updated labels and the
\* additions for the updated and added labels: the traces of every other
\* name are as they were, in place, and no other label was traced.
C9_AsStated ==
    Finished =>
        /\ SelectSeq(fig, LAMBDA t : ~t.fresh)
              = new_fig_data(figBefore, chg.removed \cup chg.updated)
        /\ \A label \in chg.updated \cup chg.added :
              /\ calls[label] = NumSeeds(points[label])
              /\ Len(FreshOf(fig, label)) = NumSeeds(points[label])
        /\ \A label \in PlotLabels \ (chg.updated \cup chg.added) :
              /\ calls[label] = 0
              /\ FreshOf(fig, label) = <<>>

\* C21: a seed change whose diff is empty is reconciled without an error:
\* the handler returns, the figure's traces are as before and
\* StreamTracer.trace was not called.
C21_AsStated ==
    (Finished /\ chg = NoKeys) =>
        /\ pc = "done"
        /\ fig = figBefore
        /\ calls = NoCalls

\* this StreamlinePlot's streamlines for a label
LinesOf(data, label) ==
    SelectSeq(data, LAMBDA t : t.name = label /\ t.kind = "line")

\* C25: once the widget is in a Visualization and the last operation on the
\* seeds has returned, the figure holds for every label of seeds.points one
\* streamline per scalar seed, one of them in the legend, and no streamline
\* of a label that is not in seeds.points.
C25_AsStated ==
    (attached /\ pc = "idle") =>
        \A label \in PlotLabels :
            IF label \in DOMAIN points
            THEN /\ Len(LinesOf(fig, label)) = NumSeeds(points[label])
                 /\ NumSeeds(points[label]) > 0 =>
                       Len(SelectSeq(LinesOf(fig, label), LAMBDA t : t.showlegend)) = 1
            ELSE LinesOf(fig, label) = <<>>

\* the traces this StreamlinePlot did not create for a seed: its
\* placeholder and the traces of other widgets
NotOurs(data) == SelectSeq(data, LAMBDA t : t.kind # "line")

\* C26: reconciling a seed change leaves every trace in place that this
\* StreamlinePlot did not create for one of its seed labels, whatever the
\* labels are.
C26_AsStated ==
    Reconciling => NotOurs(fig) = NotOurs(figBefore)

(***************************************************************************)
(* Claims about the Dataset's ingestion, under SpecData.                   *)
(***************************************************************************)
\* C10: a call of add_scalar or add_vector that fails leaves the Dataset as
\* it was: no array added to the cell or point data, unit_of unchanged.
C10_AsStated ==
    [][dsErr' # "none" => UNCHANGED <<cell_data, point_data, unit_of>>]_vars

\* C11: every array stored in the grid's cell or point data has an entry in
\* unit_of under the same name, whatever calls were made.
C11_AsStated ==
    \A name \in DOMAIN cell_data \cup DOMAIN point_data : name \in DOMAIN unit_of

\* where the last call's array was put
StoredByCall ==
    IF dsCall.n = GridCells THEN cell_data[dsCall.name] ELSE point_data[dsCall.name]

\* C12: after a successful add_scalar or add_vector with unit U, each stored
\* value is the input value times the SI scale of U.
C12_AsStated ==
    (dsCall.op # "none" /\ dsErr = "none")
        => StoredByCall.val = dsCall.val * SiScale(dsCall.unit)

\* C13: add_scalar and add_vector called on a grid that is not initialized
\* fail with the ValueError 'VTK object appears to be uninitialized'.
C13_AsStated ==
    (dsCall.op # "none" /\ ~gridInit) => dsErr = "ValueError: uninitialized"

\* the call passed the checks that come before the routing by size
Routed ==
    /\ gridInit
    /\ dsCall.op # "none"
    /\ dsErr \in {"none", "IndexError", "ValueError: size"}

KindOf(op) == IF op = "add_scalar" THEN "scalar" ELSE "vector"

\* C14: an array whose size is the cell count is stored as cell data, one
\* whose size is the point count as point data, and with any other size the
\* call fails with 'Array size not compatible', storing nothing and
\* registering no unit.
C14_SizeRouting ==
    [][(gridInit /\ Routed') =>
         IF dsCall'.n = GridCells
         THEN /\ dsErr' # "ValueError: size"
              /\ dsCall'.name \in DOMAIN cell_data'
              /\ cell_data'[dsCall'.name].n = GridCells
              /\ cell_data'[dsCall'.name].kind = KindOf(dsCall'.op)
              /\ point_data' = point_data
         ELSE IF dsCall'.n = GridPoints
         THEN /\ dsErr' # "ValueError: size"
              /\ dsCall'.name \in DOMAIN point_data'
              /\ point_data'[dsCall'.name].n = GridPoints
              /\ point_data'[dsCall'.name].kind = KindOf(dsCall'.op)
              /\ cell_data' = cell_data
         ELSE /\ dsErr' = "ValueError: size"
              /\ UNCHANGED <<cell_data, point_data, unit_of>>]_vars

C14_Witness ==
    /\ Routed
    /\ dsCall.op = "add_vector"
    /\ dsCall.n = GridPoints
    /\ "B" \in DOMAIN point_data
    /\ "B" \notin DOMAIN cell_data
    /\ "rho" \in DOMAIN cell_data
    /\ "rho" \notin DOMAIN point_data

\* the SI unit of a unit string
SiUnitOf(unit) ==
    CASE unit \in {"m", "km"} -> "m"
      [] unit = "km/s" -> "m / s"
      [] OTHER -> ""

\* C27: after a successful add_scalar or add_vector with unit U, the unit
\* registered under the name is the SI unit of U: of U's dimension, with
\* scale 1.
C27_AsStated ==
    (dsCall.op # "none" /\ dsErr = "none")
        => unit_of[dsCall.name] = SiUnitOf(dsCall.unit)

\* C28: when add_scalar or add_vector is over, having returned or raised,
\* the caller's arrays hold the values they held before the call.
C28_AsStated ==
    dsCall.op # "none" => dsCall.bufAfter = dsCall.val

(***************************************************************************)
(* Claims about StreamTracers sharing a Dataset, under SpecTracer.         *)
(***************************************************************************)
\* the last operation was a trace that reached the integrator
Integrated == tRes.op = "trace" /\ tRes.invoked

\* C15: whatever tracers and views were constructed and used on the same
\* Dataset, a StreamTracer integrates the vector variable it was
\* constructed with.
C15_AsStated ==
    Integrated => tRes.integrated = tracers[tRes.tracer].variable

\* C16: trace(seed) with a scalar seed returns what trace_from_point(seed)
\* returns; with an array-valued seed of any length, length 1 included, it
\* raises the ValueError without invoking the integrator and without
\* changing the tracer's start position.
C16_SingleSeed ==
    tRes.op = "trace" =>
        IF tRes.seed.isscalar
        THEN /\ tRes.invoked
             /\ tracers[tRes.tracer].start_position = tRes.seed.v[1]
             /\ [err |-> tRes.err, line |-> tRes.line]
                  = reassembled(integration_direction(tracers[tRes.tracer]), tRes.raw)
        ELSE /\ tRes.err = "ValueError: single point"
             /\ ~tRes.invoked
             /\ tracers[tRes.tracer] = tRes.before

C16_Witness ==
    /\ tRes.op = "trace"
    /\ tRes.seed = Array(<<MaxCoord>>)
    /\ tRes.err = "ValueError: single point"
    /\ tracers[tRes.tracer].start_position = 0

\* C19: when the integrator does not advance from the seed (an empty or
\* single-point raw polyline), trace_from_point fails, whatever the
\* integration direction: no empty or single-point line is returned.
C19_AsStated ==
    (Integrated /\ Len(tRes.raw) <= 1) => tRes.err # "none"

\* C20: integration_direction always reads as forward, backward or both; a
\* string that is none of them after strip and lower raises ValueError and
\* leaves the direction as it was (at construction: no tracer); after a
\* successful set the getter returns the normalised string.
C20_Direction ==
    /\ \A t \in DOMAIN tracers :
          /\ \E d \in Directions : tracers[t].integration_direction = integration_dir(d)
          /\ integration_direction(tracers[t]) \in Directions
    /\ tRes.op = "set" =>
          IF strip_lower(tRes.value) \in Directions
          THEN /\ tRes.err = "none"
               /\ integration_direction(tracers[tRes.tracer]) = strip_lower(tRes.value)
          ELSE /\ tRes.err = "ValueError"
               /\ tracers[tRes.tracer] = tRes.before
    /\ tRes.op = "init" =>
          IF strip_lower(tRes.value) \in Directions
          THEN /\ tRes.err = "none"
               /\ integration_direction(tracers[tRes.tracer]) = strip_lower(tRes.value)
          ELSE /\ tRes.err = "ValueError"
               /\ tRes.tracer \notin DOMAIN tracers

C20_Witness ==
    /\ tRes.op = "set"
    /\ tRes.value = "sideways"
    /\ tRes.err = "ValueError"
    /\ integration_direction(tracers[tRes.tracer]) = "backward"
    /\ \E t \in DOMAIN tracers : integration_direction(tracers[t]) = "both"

(***************************************************************************)
(* Claims about the origin split, under SpecSplit.                         *)
(***************************************************************************)
\* the positions besides the first whose squared distance from the origin
\* matches that of the first
Qualifying(raw) ==
    {k \in 2..Len(raw) : isclose(dsqr(raw[k]), dsqr(raw[1]))}

Reverse(seq) == [i \in 1..Len(seq) |-> seq[Len(seq) + 1 - i]]

ButLast(seq) == SubSeq(seq, 1, Len(seq) - 1)

Count(seq, p) == Cardinality({i \in 1..Len(seq) : seq[i] = p})

\* C17: with direction both and one position k besides the first whose
\* squared distance matches the first's, the line returned is the reverse
\* of raw[0..k-1] without its last element followed by raw[k..]: it has
\* one point less than raw, and every raw point but the first appears in it
\* exactly once.
C17_OriginSplit ==
    (sPc = "done" /\ sDir = "both" /\ Cardinality(Qualifying(sRaw)) = 1) =>
        LET k == CHOOSE i \in Qualifying(sRaw) : TRUE
            first == SubSeq(sRaw, 1, k - 1)
            second == SubSeq(sRaw, k, Len(sRaw))
        IN  /\ sOut.err = "none"
            /\ sOut.line = ButLast(Reverse(first)) \o second
            /\ Len(sOut.line) = Len(sRaw) - 1
            /\ \A i \in 1..Len(sRaw) :
                  Count(sOut.line, sRaw[i]) = Count(Tail(sRaw), sRaw[i])

C17_Witness ==
    /\ sPc = "done"
    /\ sDir = "both"
    /\ Qualifying(sRaw) = {3}
    /\ Len(sRaw) = 4
    /\ sOut = Returned(<<sRaw[2], sRaw[3], sRaw[4]>>)
    /\ sRaw[2] # sRaw[4]

Monotone(line) ==
    \/ \A i, j \in 1..Len(line) : i < j => line[i].z < line[j].z
    \/ \A i, j \in 1..Len(line) : i < j => line[i].z > line[j].z

\* C18: for the scenario's polyline and direction both, a line is returned
\* that runs monotonically along the axis and does not hold the final
\* loop-back point (0, 0, 0.999999).
C18_AsStated ==
    (sPc = "done" /\ sDir = "both" /\ sRaw = ScenarioCurve) =>
        /\ sOut.err = "none"
        /\ Monotone(sOut.line)
        /\ \A i \in 1..Len(sOut.line) : sOut.line[i] # NearOne

(***************************************************************************)
(* Claims about the vector-field transform, under SpecVec.                 *)
(***************************************************************************)
\* C22: the vector returned has the magnitude of the vector given, for
\* every vector and every pair of frames.
C22_AsStated ==
    vPc = "done" => (~vOut.nan /\ MagSq(vOut) = MagSq(vIn))

\* C23: for a vector of magnitude zero the transform returns the zero
\* vector (or fails): no component of what it returns is not-a-number.
C23_AsStated ==
    (vPc = "done" /\ MagSq(vIn) = 0) => (~vOut.nan /\ MagSq(vOut) = 0)

(***************************************************************************)
(* Claims about the configuration, under SpecConfig.                       *)
(***************************************************************************)
\* C24: a direct assignment raises AttributeError; set() raises
\* AttributeError for an undeclared key, TypeError for a value that is not of
\* the declared type and TypeError for a Quantity whose unit is not
\* equivalent to the current value's; whenever one of them raises the stored
\* values are unchanged.  So length is always a Quantity of a length unit.
C24_ValidatedSet ==
    /\ config.length.type = "Quantity"
    /\ Dimension(config.length.unit) = "length"
    /\ cfgRes.op = "assign" => (cfgRes.err = "AttributeError" /\ config = cfgRes.before)
    /\ cfgRes.op = "set" =>
          IF cfgRes.key # "length"
          THEN cfgRes.err = "AttributeError" /\ config = cfgRes.before
          ELSE IF cfgRes.value.type # "Quantity"
          THEN cfgRes.err = "TypeError: type" /\ config = cfgRes.before
          ELSE IF Dimension(cfgRes.value.unit) # Dimension(cfgRes.before.length.unit)
          THEN cfgRes.err = "TypeError: unit" /\ config = cfgRes.before
          ELSE cfgRes.err = "none" /\ config.length = cfgRes.value

C24_Witness ==
    /\ cfgRes.op = "set"
    /\ cfgRes.key = "length"
    /\ cfgRes.value = Quantity(2, "s")
    /\ cfgRes.err = "TypeError: unit"
    /\ config.length = Quantity(2, "AU")

\* C29: with direction both, a line is returned for every non-empty raw
\* polyline, whether no, one or several positions besides the first match
\* the first's squared distance; with several, the split is at the first
\* of them.
C29_AsStated ==
    (sPc = "done" /\ sDir = "both" /\ sRaw # <<>>) =>
        /\ sOut.err = "none"
        /\ Qualifying(sRaw) # {} =>
              LET k == CHOOSE i \in Qualifying(sRaw) :
                           \A j \in Qualifying(sRaw) : i <= j
              IN  sOut.line = ButLast(Reverse(SubSeq(sRaw, 1, k - 1)))
                                 \o SubSeq(sRaw, k, Len(sRaw))

(***************************************************************************)
(* Claims about the unit of a FloatSliderWithUnit, under SpecSlider.       *)
(***************************************************************************)
SliderFields == {"value", "min", "max", "step"}

\* C30: a change of unit of a slider with min <= value <= max ends without
\* error; value, min, max and step are then the quantities they were, in
\* the new unit, the value trait is slider.value times the new unit, and
\* the observers of the value trait were told of no other quantity than
\* the one the trait had.
C30_AsStated ==
    (/\ uRes.op = "unit"
     /\ uRes.before.min <= uRes.before.value
     /\ uRes.before.value <= uRes.before.max) =>
        /\ uRes.err = "none"
        /\ \A f \in SliderFields :
              Phys(Q(sphere[f], sphere.unit))
                  = Phys(Q(uRes.before[f], uRes.before.unit))
        /\ sphere.trait = Q(sphere.value, sphere.unit)
        /\ \A i \in 1..Len(uRes.notes) :
              Phys(uRes.notes[i]) = Phys(uRes.before.trait)

====
